---- MODULE Spec2Model ----
(***************************************************************************)
(* Multi-array solar forecast: the refresh coordinator, the per-array      *)
(* fetch and its processing, the aggregation helpers and the sensor reads. *)
(*                                                                         *)
(* Units.  Time is wall-clock time in whole hours since midnight of day 0  *)
(* (every comparison in the source is made on wall-clock fields, after     *)
(* .replace(tzinfo=uk_tz) on both sides).  Irradiance is in W/m2, kwp in   *)
(* kW, temperature in degrees C, cloud cover in percent, damping in        *)
(* tenths.  Each factor of the power model is held in tenths, so a power   *)
(* is an exact integer number of 1e-7 kW (UnitsPerKW units to the kW).     *)
(* Temperatures are multiples of 25 C and cloud covers multiples of 25 %,  *)
(* for which the factors in tenths are exact.                              *)
(* An optional value (Python's None) is a sequence: << >> is None and      *)
(* <<v>> is the value v.                                                   *)
(***************************************************************************)
EXTENDS Integers, Sequences, FiniteSets, TLC

VARIABLES
    clock,                  \* datetime.now(), in hours
    pc,                     \* "idle" or "fetching": position of _async_update_data
    results,                \* per array: the outcome gather() collects
    data,                   \* coordinator.data: the published snapshot (<< >> is None)
    last_update_success,    \* coordinator.last_update_success
    partial_warning,        \* the "Only %d of %d arrays" warning of the last cycle
    read,                   \* what the most recent read call returned
    flow,                   \* the configuration or options flow in progress, if any
    config_entry            \* the arrays of the stored config entry (<< >> is no entry)

vars ==
    <<clock, pc, results, data, last_update_success, partial_warning, read, flow,
      config_entry>>

(***************************************************************************)
(* Bounds of the model.                                                    *)
(***************************************************************************)
MaxLen == 2        \* hourly points in one provider response
MaxTicks == 2      \* hours the clock advances past its start

(***************************************************************************)
(* Program constants.                                                      *)
(***************************************************************************)
HoursPerDay == 24
UnitsPerKW == 1000 * 10 * 10 * 10 * 10
UnitsPerCentiKW == UnitsPerKW \div 100

None == << >>
Some(v) == <<v>>
IsNone(o) == o = << >>
Val(o) == o[1]

Max(a, b) == IF a >= b THEN a ELSE b
Abs(a) == IF a >= 0 THEN a ELSE 0 - a

DayStart(t) == (t \div HoursPerDay) * HoursPerDay
HourOf(t) == t % HoursPerDay

\* now.isoformat(): the instant, and whether the text carries a UTC offset
IsoFormat(t, aware) == [t |-> t, aware |-> aware]

(***************************************************************************)
(* The configured arrays (coordinator.arrays), in configuration order.     *)
(***************************************************************************)
Arrays ==
    << [name |-> "A", kwp |-> 5, declination |-> 30, azimuth |-> 180, damping |-> 0],
       [name |-> "B", kwp |-> 3, declination |-> 45, azimuth |-> 90, damping |-> 0] >>

ArrayIdx == 1..Len(Arrays)

(***************************************************************************)
(* Dictionaries keep insertion order: a dict is a sequence of              *)
(* [name, series] items with distinct names.                               *)
(***************************************************************************)
Keys(d) == {d[i].name : i \in 1..Len(d)}
Has(d, k) == \E i \in 1..Len(d) : d[i].name = k
Get(d, k) == d[CHOOSE i \in 1..Len(d) : d[i].name = k].series
DictSet(d, k, v) ==
    IF Has(d, k)
    THEN [i \in 1..Len(d) |-> IF d[i].name = k THEN [name |-> k, series |-> v] ELSE d[i]]
    ELSE Append(d, [name |-> k, series |-> v])

\* entry.get(key): None when the key is absent
EntryGet(entry, key) == IF key \in DOMAIN entry THEN Some(entry[key]) ELSE None

(***************************************************************************)
(* Power model.                                                            *)
(***************************************************************************)
\* Variant: panels facing east of south see every band one hour earlier.
GetOrientationFactorByAzimuth(declination, azimuth, timestamp) ==
    LET hour == IF azimuth < 180 THEN HourOf(timestamp) + 1 ELSE HourOf(timestamp)
    IN  IF hour < 6 \/ hour > 20 THEN 0
        ELSE IF hour < 8 \/ hour > 18 THEN 2
        ELSE IF hour < 10 \/ hour > 16 THEN 6
        ELSE 10

\* _get_orientation_factor, in tenths
GetOrientationFactor(declination, azimuth, timestamp) ==
    LET hour == HourOf(timestamp)
    IN  IF hour < 6 \/ hour > 20 THEN 0
        ELSE IF hour < 8 \/ hour > 18 THEN 2
        ELSE IF hour < 10 \/ hour > 16 THEN 6
        ELSE 10

\* Variant: no early return for radiation <= 0.
CalculateSolarPowerNoGuard(radiation, kwp, declination, azimuth, damping, timestamp, temperature, cloud_cover) ==
    LET base_power == radiation * kwp
        temp_factor == (1000 - 4 * (temperature - 25)) \div 100
        orientation_factor == GetOrientationFactor(declination, azimuth, timestamp)
        cloud_factor == (1000 - 8 * cloud_cover) \div 100
    IN  Max(0, base_power * temp_factor * orientation_factor * cloud_factor * (10 - damping))

\* Variant: the product is returned without max(0.0, ...).
CalculateSolarPowerUnclamped(radiation, kwp, declination, azimuth, damping, timestamp, temperature, cloud_cover) ==
    IF radiation <= 0 THEN 0
    ELSE LET base_power == radiation * kwp
             temp_factor == (1000 - 4 * (temperature - 25)) \div 100
             orientation_factor == GetOrientationFactor(declination, azimuth, timestamp)
             cloud_factor == (1000 - 8 * cloud_cover) \div 100
         IN  base_power * temp_factor * orientation_factor * cloud_factor * (10 - damping)

\* Variant: cloud cover raises the output instead of lowering it.
CalculateSolarPowerCloudBoost(radiation, kwp, declination, azimuth, damping, timestamp, temperature, cloud_cover) ==
    IF radiation <= 0 THEN 0
    ELSE LET base_power == radiation * kwp
             temp_factor == (1000 - 4 * (temperature - 25)) \div 100
             orientation_factor == GetOrientationFactor(declination, azimuth, timestamp)
             cloud_factor == (1000 + 8 * cloud_cover) \div 100
         IN  Max(0, base_power * temp_factor * orientation_factor * cloud_factor * (10 - damping))

\* Variant: the hour of the day plays no part.
CalculateSolarPowerNoOrientation(radiation, kwp, declination, azimuth, damping, timestamp, temperature, cloud_cover) ==
    IF radiation <= 0 THEN 0
    ELSE LET base_power == radiation * kwp
             temp_factor == (1000 - 4 * (temperature - 25)) \div 100
             orientation_factor == 10
             cloud_factor == (1000 - 8 * cloud_cover) \div 100
         IN  Max(0, base_power * temp_factor * orientation_factor * cloud_factor * (10 - damping))

CalculateSolarPower(radiation, kwp, declination, azimuth, damping, timestamp, temperature, cloud_cover) ==
    IF radiation <= 0 THEN 0
    ELSE LET base_power == radiation * kwp
             temp_factor == (1000 - 4 * (temperature - 25)) \div 100
             orientation_factor == GetOrientationFactor(declination, azimuth, timestamp)
             cloud_factor == (1000 - 8 * cloud_cover) \div 100
         IN  Max(0, base_power * temp_factor * orientation_factor * cloud_factor
                       * (10 - damping))

(***************************************************************************)
(* Aggregation over one series.                                            *)
(***************************************************************************)
RECURSIVE ClosestIdx(_, _, _, _, _)
ClosestIdx(timestamps, now, i, closest_idx, min_diff) ==
    IF i > Len(timestamps) THEN closest_idx
    ELSE LET diff == Abs(timestamps[i] - now)
         IN  IF IsNone(min_diff) \/ diff < Val(min_diff)
             THEN ClosestIdx(timestamps, now, i + 1, i, Some(diff))
             ELSE ClosestIdx(timestamps, now, i + 1, closest_idx, min_diff)

\* Variant: of equally close entries the last one wins (diff <= min_diff).
RECURSIVE ClosestIdxLast(_, _, _, _, _)
ClosestIdxLast(timestamps, now, i, closest_idx, min_diff) ==
    IF i > Len(timestamps) THEN closest_idx
    ELSE LET diff == Abs(timestamps[i] - now)
         IN  IF IsNone(min_diff) \/ diff <= Val(min_diff)
             THEN ClosestIdxLast(timestamps, now, i + 1, i, Some(diff))
             ELSE ClosestIdxLast(timestamps, now, i + 1, closest_idx, min_diff)

GetCurrentPowerLastOfTies(timestamps, power_values, now) ==
    IF timestamps = << >> \/ power_values = << >> THEN 0
    ELSE LET closest_idx == ClosestIdxLast(timestamps, now, 1, 1, None)
         IN  IF closest_idx <= Len(power_values) THEN power_values[closest_idx] ELSE 0

GetCurrentPower(timestamps, power_values, now) ==
    IF timestamps = << >> \/ power_values = << >> THEN 0
    ELSE LET closest_idx == ClosestIdx(timestamps, now, 1, 1, None)
         IN  IF closest_idx <= Len(power_values) THEN power_values[closest_idx] ELSE 0

RECURSIVE DailyEnergyFrom(_, _, _, _, _)
DailyEnergyFrom(timestamps, power_values, start_time, end_time, i) ==
    IF i > Len(timestamps) THEN 0
    ELSE (IF start_time <= timestamps[i] /\ timestamps[i] < end_time
             /\ i <= Len(power_values)
          THEN power_values[i] ELSE 0)
         + DailyEnergyFrom(timestamps, power_values, start_time, end_time, i + 1)

\* Variant: the interval is closed at its end.
RECURSIVE DailyEnergyClosedFrom(_, _, _, _, _)
DailyEnergyClosedFrom(timestamps, power_values, start_time, end_time, i) ==
    IF i > Len(timestamps) THEN 0
    ELSE (IF start_time <= timestamps[i] /\ timestamps[i] <= end_time
             /\ i <= Len(power_values)
          THEN power_values[i] ELSE 0)
         + DailyEnergyClosedFrom(timestamps, power_values, start_time, end_time, i + 1)

CalculateDailyEnergyClosedEnd(timestamps, power_values, start_time, end_time) ==
    DailyEnergyClosedFrom(timestamps, power_values, start_time, end_time, 1)

CalculateDailyEnergy(timestamps, power_values, start_time, end_time) ==
    DailyEnergyFrom(timestamps, power_values, start_time, end_time, 1)

RECURSIVE PeakPowerFrom(_, _, _, _, _)
PeakPowerFrom(timestamps, power_values, start_time, end_time, i) ==
    IF i > Len(timestamps) THEN 0
    ELSE Max(IF start_time <= timestamps[i] /\ timestamps[i] < end_time
                /\ i <= Len(power_values)
             THEN power_values[i] ELSE 0,
             PeakPowerFrom(timestamps, power_values, start_time, end_time, i + 1))

\* Variant: the peak of the whole series, whatever the interval.
GetPeakPowerWholeSeries(timestamps, power_values, start_time, end_time) ==
    IF timestamps = << >> THEN 0
    ELSE PeakPowerFrom(timestamps, power_values, timestamps[1],
                       timestamps[Len(timestamps)] + 1, 1)

GetPeakPower(timestamps, power_values, start_time, end_time) ==
    PeakPowerFrom(timestamps, power_values, start_time, end_time, 1)

GetEmptySummaryMetrics(now) ==
    [current_power |-> 0, today_energy |-> 0, tomorrow_energy |-> 0,
     peak_power_today |-> 0, peak_power_tomorrow |-> 0,
     last_updated |-> IsoFormat(now, FALSE)]

CalculateSummaryMetrics(timestamps, power_values, now) ==
    IF timestamps = << >> \/ power_values = << >> THEN GetEmptySummaryMetrics(now)
    ELSE LET today_start == DayStart(now)
             tomorrow_start == today_start + HoursPerDay
             day_after_tomorrow == tomorrow_start + HoursPerDay
         IN  [current_power |-> GetCurrentPower(timestamps, power_values, now),
              today_energy |->
                  CalculateDailyEnergy(timestamps, power_values, today_start, tomorrow_start),
              tomorrow_energy |->
                  CalculateDailyEnergy(timestamps, power_values, tomorrow_start,
                                       day_after_tomorrow),
              peak_power_today |->
                  GetPeakPower(timestamps, power_values, today_start, tomorrow_start),
              peak_power_tomorrow |->
                  GetPeakPower(timestamps, power_values, tomorrow_start, day_after_tomorrow),
              last_updated |-> IsoFormat(now, TRUE)]

GetEmptyForecastData(now) ==
    [timestamps |-> << >>, power_forecast |-> << >>, energy_forecast |-> << >>,
     temperature |-> << >>, cloud_cover |-> << >>, wind_speed |-> << >>,
     array_info |-> None]
    @@ GetEmptySummaryMetrics(now)

(***************************************************************************)
(* Forecast fetcher.  hourly is the "hourly" block of the provider's JSON: *)
(* five lists whose items are optional values (JSON null is None).         *)
(***************************************************************************)
\* Variant: an entry is kept only when its temperature is present as well.
RECURSIVE KeptPointsWithTemperature(_, _)
KeptPointsWithTemperature(hourly, i) ==
    IF i > Len(hourly.time) THEN << >>
    ELSE IF i > Len(hourly.shortwave_radiation) \/ IsNone(hourly.shortwave_radiation[i])
            \/ i > Len(hourly.temperature_2m) \/ IsNone(hourly.temperature_2m[i])
         THEN KeptPointsWithTemperature(hourly, i + 1)
         ELSE <<i>> \o KeptPointsWithTemperature(hourly, i + 1)

RECURSIVE KeptPoints(_, _)
KeptPoints(hourly, i) ==
    IF i > Len(hourly.time) THEN << >>
    ELSE IF i > Len(hourly.shortwave_radiation) \/ IsNone(hourly.shortwave_radiation[i])
         THEN KeptPoints(hourly, i + 1)
         ELSE <<i>> \o KeptPoints(hourly, i + 1)

OrDefault(list, i, default) ==
    IF i <= Len(list) /\ ~IsNone(list[i]) THEN Val(list[i]) ELSE default

ProcessForecastData(hourly, array, now) ==
    IF hourly.time = << >> \/ hourly.shortwave_radiation = << >>
    THEN GetEmptyForecastData(now)
    ELSE LET kept == KeptPoints(hourly, 1)
             n == Len(kept)
             timestamps == [j \in 1..n |-> hourly.time[kept[j]]]
             power == [j \in 1..n |->
                          CalculateSolarPower(Val(hourly.shortwave_radiation[kept[j]]),
                              array.kwp, array.declination, array.azimuth, array.damping,
                              hourly.time[kept[j]],
                              OrDefault(hourly.temperature_2m, kept[j], 25),
                              OrDefault(hourly.cloud_cover, kept[j], 0))]
         IN  [timestamps |-> timestamps,
              power_forecast |-> power,
              energy_forecast |-> power,
              temperature |-> [j \in 1..n |-> OrDefault(hourly.temperature_2m, kept[j], 25)],
              cloud_cover |-> [j \in 1..n |-> OrDefault(hourly.cloud_cover, kept[j], 0)],
              wind_speed |-> [j \in 1..n |-> OrDefault(hourly.wind_speed_10m, kept[j], 0)],
              array_info |-> Some([kwp |-> array.kwp, declination |-> array.declination,
                                   azimuth |-> array.azimuth, damping |-> array.damping])]
             @@ CalculateSummaryMetrics(timestamps, power, now)

\* What gather() collects for one task: still running, an exception, or a series.
Pending == [st |-> "pending"]
Failed == [st |-> "failed"]
Ok(series) == [st |-> "ok", series |-> series]

\* The body of a response: whether response.json() parses it, whether the parsed
\* value is a JSON object, whether the object has an "hourly" member, and that member.
JsonBody(parseable, is_object, has_hourly, hourly) ==
    [parseable |-> parseable, is_object |-> is_object, has_hourly |-> has_hourly,
     hourly |-> hourly]

\* data.get("hourly", {}), with the .get(name, []) of each of its lists
JsonHourly(json) ==
    IF json.has_hourly THEN json.hourly
    ELSE [time |-> << >>, shortwave_radiation |-> << >>, temperature_2m |-> << >>,
          cloud_cover |-> << >>, wind_speed_10m |-> << >>]

\* Variant: a body that is not an object is read as one without an "hourly" member.
FetchArrayForecastAnyJson(outcome, array, now) ==
    IF outcome.kind = "timeout" THEN Failed
    ELSE IF outcome.kind = "client_error" THEN Failed
    ELSE IF outcome.status # 200 THEN Failed
    ELSE IF ~outcome.json.parseable THEN Failed
    ELSE IF ~outcome.json.is_object
    THEN Ok(ProcessForecastData(JsonHourly(JsonBody(TRUE, TRUE, FALSE, << >>)), array, now))
    ELSE Ok(ProcessForecastData(JsonHourly(outcome.json), array, now))

\* Variant: a response without usable points is a failed fetch.
FetchArrayForecastFailsOnEmpty(outcome, array, now) ==
    IF outcome.kind = "timeout" THEN Failed
    ELSE IF outcome.kind = "client_error" THEN Failed
    ELSE IF outcome.status # 200 THEN Failed
    ELSE IF ~outcome.json.parseable THEN Failed
    ELSE IF ~outcome.json.is_object THEN Failed
    ELSE IF ProcessForecastData(JsonHourly(outcome.json), array, now).timestamps = << >>
    THEN Failed
    ELSE Ok(ProcessForecastData(JsonHourly(outcome.json), array, now))

\* outcome: what the HTTP request of one array came to
FetchArrayForecast(outcome, array, now) ==
    IF outcome.kind = "timeout" THEN Failed
    ELSE IF outcome.kind = "client_error" THEN Failed
    ELSE IF outcome.status # 200 THEN Failed
    ELSE IF ~outcome.json.parseable THEN Failed
    ELSE IF ~outcome.json.is_object THEN Failed
    ELSE Ok(ProcessForecastData(JsonHourly(outcome.json), array, now))

(***************************************************************************)
(* The provider, as the coordinator can meet it at time now: a forecast    *)
(* window of n hourly points that starts at noon of the current day.       *)
(***************************************************************************)
Irradiance(t) == 100 * (1 + (t % 7))

HourlyBlock(start, n) ==
    [time |-> [i \in 1..n |-> start + i - 1],
     shortwave_radiation |-> [i \in 1..n |-> Some(Irradiance(start + i - 1))],
     temperature_2m |-> [i \in 1..n |-> Some(25)],
     cloud_cover |-> [i \in 1..n |-> Some(0)],
     wind_speed_10m |-> [i \in 1..n |-> Some(0)]]

NoHourly == HourlyBlock(0, 0)

FetchOutcomes(now) ==
    {[kind |-> "timeout"], [kind |-> "client_error"],
     [kind |-> "response", status |-> 500, json |-> JsonBody(TRUE, TRUE, TRUE, NoHourly)],
     [kind |-> "response", status |-> 200, json |-> JsonBody(FALSE, FALSE, FALSE, NoHourly)],
     [kind |-> "response", status |-> 200, json |-> JsonBody(TRUE, FALSE, FALSE, NoHourly)],
     [kind |-> "response", status |-> 200, json |-> JsonBody(TRUE, TRUE, FALSE, NoHourly)]}
    \cup {[kind |-> "response", status |-> 200,
           json |-> JsonBody(TRUE, TRUE, TRUE, HourlyBlock(DayStart(now) + 12, n))]
          : n \in 0..MaxLen}

(***************************************************************************)
(* Refresh orchestrator: _async_update_data, and the host coordinator that *)
(* stores its result (data, last_update_success).                          *)
(***************************************************************************)
\* Variant: the first exception ends the gather and the other tasks are lost.
GatherCancelSiblings(res, i, r) ==
    IF r = [st |-> "failed"]
    THEN [j \in 1..Len(res) |->
             IF j = i \/ res[j] = [st |-> "pending"] THEN [st |-> "failed"] ELSE res[j]]
    ELSE [res EXCEPT ![i] = r]

\* gather(*tasks, return_exceptions=True): task i ends with result r
GatherCollect(res, i, r) == [res EXCEPT ![i] = r]

AllDone(res) == \A i \in 1..Len(res) : res[i] # Pending

SuccessfulUpdates(res) == Cardinality({i \in 1..Len(res) : res[i].st = "ok"})

RECURSIVE BuildForecasts(_, _, _, _)
BuildForecasts(res, prev, i, all_forecasts) ==
    IF i > Len(res) THEN all_forecasts
    ELSE LET array_name == Arrays[i].name
         IN  IF res[i].st = "failed"
             THEN IF prev # None /\ Has(prev, array_name)
                  THEN BuildForecasts(res, prev, i + 1,
                                      DictSet(all_forecasts, array_name, Get(prev, array_name)))
                  ELSE BuildForecasts(res, prev, i + 1, all_forecasts)
             ELSE BuildForecasts(res, prev, i + 1,
                                 DictSet(all_forecasts, array_name, res[i].series))

\* Variant: a failed array is left out, whatever the previous snapshot held.
AllForecastsDropStale(res, prev) == BuildForecasts(res, None, 1, << >>)

\* Variant: a fetched series with no points is not installed.
AllForecastsSkipEmpty(res, prev) ==
    SelectSeq(BuildForecasts(res, prev, 1, << >>),
              LAMBDA item : item.series.timestamps # << >>)

\* Variant: an array that has an entry keeps it, whether or not its fetch succeeded.
AllForecastsKeepExisting(res, prev) ==
    LET all_forecasts == BuildForecasts(res, prev, 1, << >>)
    IN  [k \in 1..Len(all_forecasts) |->
            IF prev # None /\ Has(prev, all_forecasts[k].name)
            THEN [name |-> all_forecasts[k].name, series |-> Get(prev, all_forecasts[k].name)]
            ELSE all_forecasts[k]]

AllForecasts(res, prev) == BuildForecasts(res, prev, 1, << >>)

\* Variant: any failed array fails the refresh.
RefreshFailsOnAnyError(res) == SuccessfulUpdates(res) < Len(res)

\* Variant: the refresh returns its snapshot however many fetches succeeded.
RefreshFailsNever(res) == FALSE

\* if successful_updates == 0: raise UpdateFailed
RefreshFails(res) == SuccessfulUpdates(res) = 0

\* the "Only %d of %d arrays updated successfully" warning, when it is logged
PartialWarning(res) ==
    IF SuccessfulUpdates(res) < Len(Arrays)
    THEN Some(<<SuccessfulUpdates(res), Len(Arrays)>>)
    ELSE None

(***************************************************************************)
(* Combined series of a snapshot.                                          *)
(***************************************************************************)
AddPower(acc, power_values) ==
    [i \in 1..Len(acc) |-> acc[i] + (IF i <= Len(power_values) THEN power_values[i] ELSE 0)]

RECURSIVE SumPower(_, _, _)
SumPower(d, k, acc) ==
    IF k > Len(d) THEN acc
    ELSE SumPower(d, k + 1, AddPower(acc, d[k].series.power_forecast))

\* Variant: a series adds its power at the rows whose timestamp matches the axis.
PowerAtTime(series, t) ==
    LET rows == {j \in 1..Len(series.timestamps) : series.timestamps[j] = t}
    IN  IF rows = {} \/ (CHOOSE j \in rows : TRUE) > Len(series.power_forecast) THEN 0
        ELSE series.power_forecast[CHOOSE j \in rows : TRUE]

RECURSIVE SumAtTime(_, _, _)
SumAtTime(d, k, t) ==
    IF k > Len(d) THEN 0 ELSE PowerAtTime(d[k].series, t) + SumAtTime(d, k + 1, t)

CombineByTimestamp(d, now) ==
    IF d = None THEN GetEmptyForecastData(now)
    ELSE LET axis == d[1].series.timestamps
             total == [i \in 1..Len(axis) |-> SumAtTime(d, 1, axis[i])]
         IN  [timestamps |-> axis, power_forecast |-> total, energy_forecast |-> total]

\* Variant: the sum starts from the first series' power instead of from zero.
CombineSeededWithFirst(d, now) ==
    IF d = None THEN GetEmptyForecastData(now)
    ELSE LET first_array == d[1].series
             seed == [i \in 1..Len(first_array.timestamps) |->
                         IF i <= Len(first_array.power_forecast)
                         THEN first_array.power_forecast[i] ELSE 0]
             total == SumPower(d, 1, seed)
         IN  [timestamps |-> first_array.timestamps,
              power_forecast |-> total,
              energy_forecast |-> total]

CombineArrayData(d, now) ==
    IF d = None THEN GetEmptyForecastData(now)
    ELSE LET first_array == d[1].series
             zeros == [i \in 1..Len(first_array.timestamps) |-> 0]
             total == SumPower(d, 1, zeros)
         IN  [timestamps |-> first_array.timestamps,
              power_forecast |-> total,
              energy_forecast |-> total]

(***************************************************************************)
(* Sensors.  round(x, 2) of a power in kW gives hundredths of a kW.        *)
(***************************************************************************)
Round2(v) ==
    LET q == v \div UnitsPerCentiKW
        r == v % UnitsPerCentiKW
    IN  IF 2 * r < UnitsPerCentiKW THEN q
        ELSE IF 2 * r > UnitsPerCentiKW THEN q + 1
        ELSE IF q % 2 = 0 THEN q ELSE q + 1

EmptyDict == [x \in {} |-> 0]

ArrayNativeValue(d, array_name, sensor_type) ==
    IF d = None THEN None
    ELSE LET array_data == IF Has(d, array_name) THEN Get(d, array_name) ELSE EmptyDict
             value == EntryGet(array_data, sensor_type)
         IN  IF ~IsNone(value) THEN Some(Round2(Val(value))) ELSE None

\* Variant: availability follows the snapshot only, not the last refresh.
ArrayAvailableIgnoringSuccess(success, d, array_name) ==
    d # None /\ Has(d, array_name)

ArrayAvailable(success, d, array_name) ==
    success /\ d # None /\ Has(d, array_name)

ArrayLastUpdated(d, array_name) ==
    IF d = None \/ ~Has(d, array_name) THEN None
    ELSE EntryGet(Get(d, array_name), "last_updated")

RECURSIVE TotalOf(_, _, _)
TotalOf(d, sensor_type, k) ==
    IF k > Len(d) THEN 0
    ELSE (IF sensor_type \in DOMAIN d[k].series THEN d[k].series[sensor_type] ELSE 0)
         + TotalOf(d, sensor_type, k + 1)

TotalNativeValue(d, sensor_type) ==
    IF d = None THEN None
    ELSE LET arrays_with_data ==
                 Cardinality({k \in 1..Len(d) : sensor_type \in DOMAIN d[k].series})
         IN  IF arrays_with_data > 0 THEN Some(Round2(TotalOf(d, sensor_type, 1))) ELSE None

TotalAvailable(success, d) == success /\ d # None /\ Len(d) > 0

\* the SENSOR_TYPES whose sensors the model reads
ReadTypes == {"today_energy"}

NoRead == [kind |-> "none"]

\* no configuration or options flow is open
NoFlow == [kind |-> "none"]

(***************************************************************************)
(* The state machine.                                                      *)
(***************************************************************************)
StartClock == HoursPerDay - 1

Init ==
    /\ clock = StartClock
    /\ pc = "idle"
    /\ results = << >>
    /\ data = None
    /\ last_update_success = TRUE
    /\ partial_warning = None
    /\ read = NoRead
    /\ flow = NoFlow
    /\ config_entry = None

\* An hour passes.  A cycle lasts at most API_TIMEOUT seconds per fetch, all
\* fetches running together, so no hour passes inside a cycle.
Tick ==
    /\ pc = "idle"
    /\ clock < StartClock + MaxTicks
    /\ clock' = clock + 1
    /\ read' = NoRead
    /\ UNCHANGED <<pc, results, data, last_update_success, partial_warning, flow, config_entry>>

StartRefresh ==
    /\ pc = "idle"
    /\ pc' = "fetching"
    /\ results' = [i \in ArrayIdx |-> Pending]
    /\ read' = NoRead
    /\ UNCHANGED <<clock, data, last_update_success, partial_warning, flow, config_entry>>

\* Variant: a finished fetch installs its series in the published snapshot at once.
FetchDoneInstalls(i) ==
    /\ pc = "fetching"
    /\ results[i] = Pending
    /\ \E outcome \in FetchOutcomes(clock) :
           LET r == FetchArrayForecast(outcome, Arrays[i], clock)
           IN  /\ results' = GatherCollect(results, i, r)
               /\ data' = IF r.st = "ok" THEN DictSet(data, Arrays[i].name, r.series)
                           ELSE data
    /\ read' = NoRead
    /\ UNCHANGED <<clock, pc, last_update_success, partial_warning, flow, config_entry>>

FetchDone(i) ==
    /\ pc = "fetching"
    /\ results[i] = Pending
    /\ \E outcome \in FetchOutcomes(clock) :
           results' = GatherCollect(results, i, FetchArrayForecast(outcome, Arrays[i], clock))
    /\ read' = NoRead
    /\ UNCHANGED <<clock, pc, data, last_update_success, partial_warning, flow, config_entry>>

RefreshSucceed ==
    /\ pc = "fetching"
    /\ AllDone(results)
    /\ ~RefreshFails(results)
    /\ data' = AllForecasts(results, data)
    /\ last_update_success' = TRUE
    /\ partial_warning' = PartialWarning(results)
    /\ pc' = "idle"
    /\ results' = << >>
    /\ read' = NoRead
    /\ UNCHANGED <<clock, flow, config_entry>>

\* Variant: a failed refresh drops the published snapshot.
RefreshFailClearsData ==
    /\ pc = "fetching"
    /\ AllDone(results)
    /\ RefreshFails(results)
    /\ last_update_success' = FALSE
    /\ partial_warning' = None
    /\ pc' = "idle"
    /\ read' = NoRead
    /\ results' = << >>
    /\ data' = None
    /\ UNCHANGED <<clock, flow, config_entry>>

RefreshFail ==
    /\ pc = "fetching"
    /\ AllDone(results)
    /\ RefreshFails(results)
    /\ last_update_success' = FALSE
    /\ partial_warning' = None
    /\ pc' = "idle"
    /\ read' = NoRead
    /\ results' = << >>
    /\ UNCHANGED <<clock, data, flow, config_entry>>

ReadArraySensor(i, sensor_type) ==
    /\ read' = [kind |-> "array_sensor",
                name |-> Arrays[i].name,
                sensor_type |-> sensor_type,
                native_value |-> ArrayNativeValue(data, Arrays[i].name, sensor_type),
                available |-> ArrayAvailable(last_update_success, data, Arrays[i].name),
                last_updated |-> ArrayLastUpdated(data, Arrays[i].name)]
    /\ UNCHANGED <<clock, pc, results, data, last_update_success, partial_warning, flow, config_entry>>

ReadTotalSensor(sensor_type) ==
    /\ read' = [kind |-> "total_sensor",
                sensor_type |-> sensor_type,
                native_value |-> TotalNativeValue(data, sensor_type),
                available |-> TotalAvailable(last_update_success, data)]
    /\ UNCHANGED <<clock, pc, results, data, last_update_success, partial_warning, flow, config_entry>>

\* a service call that reads the combined series (get_hourly_forecast and others)
ReadCombined ==
    /\ read' = [kind |-> "combined", value |-> CombineArrayData(data, clock)]
    /\ UNCHANGED <<clock, pc, results, data, last_update_success, partial_warning, flow, config_entry>>

Next ==
    \/ Tick
    \/ StartRefresh
    \/ \E i \in ArrayIdx : FetchDone(i)
    \/ RefreshSucceed
    \/ RefreshFail
    \/ \E i \in ArrayIdx, sensor_type \in ReadTypes : ReadArraySensor(i, sensor_type)
    \/ \E sensor_type \in ReadTypes : ReadTotalSensor(sensor_type)
    \/ ReadCombined

Spec == Init /\ [][Next]_vars

(***************************************************************************)
(* The combined series as a function of the snapshot alone: the snapshot   *)
(* is any map of up to three series, of lengths up to MaxCombineLen, on    *)
(* axes that start at noon or an hour later; the only step is the read.    *)
(***************************************************************************)
MaxCombineLen == 3
CombineNames == <<"A", "B", "C">>
CombineStarts == {12, 13}
CombineLevels == {1, 3}

\* a series of n hourly points from hour start, its power rising from level kW by
\* one kW per point
SeriesOf(start, n, level) ==
    [timestamps |-> [i \in 1..n |-> start + i - 1],
     power_forecast |-> [i \in 1..n |-> (level + i - 1) * UnitsPerKW],
     energy_forecast |-> [i \in 1..n |-> (level + i - 1) * UnitsPerKW]]

CombineSeries ==
    {SeriesOf(start, n, level) :
        start \in CombineStarts, n \in 0..MaxCombineLen, level \in CombineLevels}

CombineInputs ==
    {None} \cup
    UNION {{[k \in 1..m |-> [name |-> CombineNames[k], series |-> f[k]]] :
               f \in [1..m -> CombineSeries]} : m \in 1..Len(CombineNames)}

InitCombine ==
    /\ clock = StartClock
    /\ pc = "idle"
    /\ results = << >>
    /\ data \in CombineInputs
    /\ last_update_success = TRUE
    /\ partial_warning = None
    /\ read = NoRead
    /\ flow = NoFlow
    /\ config_entry = None

NextCombine == ReadCombined

SpecCombine == InitCombine /\ [][NextCombine]_vars

(***************************************************************************)
(* The aggregation helpers as functions of a series alone: the snapshot    *)
(* holds one array whose series has any strictly increasing axis within    *)
(* AggHours (gaps arise where the provider's irradiance was null), the     *)
(* steps are calls of the helpers with any interval or instant.            *)
(***************************************************************************)
AggHours == 0..3
AggBounds == 0..4
AggPowers == {UnitsPerKW, 2 * UnitsPerKW, 3 * UnitsPerKW}

RECURSIVE SortedSeq(_)
SortedSeq(S) ==
    IF S = {} THEN << >>
    ELSE LET m == CHOOSE x \in S : \A y \in S : x <= y
         IN  <<m>> \o SortedSeq(S \ {m})

AggSeries ==
    UNION {{[timestamps |-> SortedSeq(S),
             power_forecast |-> [i \in 1..Cardinality(S) |-> p[SortedSeq(S)[i]]]] :
               p \in [S -> AggPowers]} : S \in SUBSET AggHours}

InitAgg ==
    /\ clock = StartClock
    /\ pc = "idle"
    /\ results = << >>
    /\ data \in {<<[name |-> "A", series |-> series]>> : series \in AggSeries}
    /\ last_update_success = TRUE
    /\ partial_warning = None
    /\ read = NoRead
    /\ flow = NoFlow
    /\ config_entry = None

ReadDailyEnergy(start_time, end_time) ==
    /\ read' = [kind |-> "daily_energy", start_time |-> start_time, end_time |-> end_time,
                value |-> CalculateDailyEnergy(data[1].series.timestamps,
                                               data[1].series.power_forecast,
                                               start_time, end_time)]
    /\ UNCHANGED <<clock, pc, results, data, last_update_success, partial_warning, flow, config_entry>>

ReadPeakPower(start_time, end_time) ==
    /\ read' = [kind |-> "peak_power", start_time |-> start_time, end_time |-> end_time,
                value |-> GetPeakPower(data[1].series.timestamps,
                                       data[1].series.power_forecast,
                                       start_time, end_time)]
    /\ UNCHANGED <<clock, pc, results, data, last_update_success, partial_warning, flow, config_entry>>

ReadCurrentPower(now) ==
    /\ read' = [kind |-> "current_power", now |-> now,
                value |-> GetCurrentPower(data[1].series.timestamps,
                                          data[1].series.power_forecast, now)]
    /\ UNCHANGED <<clock, pc, results, data, last_update_success, partial_warning, flow, config_entry>>

NextAgg ==
    \/ \E start_time \in AggBounds, end_time \in AggBounds :
           ReadDailyEnergy(start_time, end_time)
    \/ \E start_time \in AggBounds, end_time \in AggBounds :
           ReadPeakPower(start_time, end_time)
    \/ \E now \in AggBounds : ReadCurrentPower(now)

SpecAgg == InitAgg /\ [][NextAgg]_vars

(***************************************************************************)
(* Windowed energy figures.  An instant is a record of the hour (counted   *)
(* from midnight of day 0), the minute-and-second part of the hour and the *)
(* microsecond part of the second; .replace() sets fields of that record.  *)
(* SecondsPerHour and MicrosPerSecond are the numbers of values the model  *)
(* gives the two sub-hour fields.  Instants are compared as ticks, the     *)
(* smallest step of an instant; a timestamp of a series is a whole hour.   *)
(***************************************************************************)
SecondsPerHour == 2
MicrosPerSecond == 2
TicksPerHour == SecondsPerHour * MicrosPerSecond
UnitsPerMilliKW == UnitsPerKW \div 1000

Instant(hour, second, microsecond) ==
    [hour |-> hour, second |-> second, microsecond |-> microsecond]
Ticks(instant) ==
    (instant.hour * SecondsPerHour + instant.second) * MicrosPerSecond + instant.microsecond
HourTicks(timestamp) == timestamp * TicksPerHour

\* round(v, 3) of a figure in kW or kWh
Round3(v) ==
    LET q == v \div UnitsPerMilliKW
        r == v % UnitsPerMilliKW
    IN  IF 2 * r < UnitsPerMilliKW THEN q * UnitsPerMilliKW
        ELSE IF 2 * r > UnitsPerMilliKW THEN (q + 1) * UnitsPerMilliKW
        ELSE IF q % 2 = 0 THEN q * UnitsPerMilliKW ELSE (q + 1) * UnitsPerMilliKW

\* the sum of power_values[i] over the rows of the axis with from <= timestamp <= to
RECURSIVE SumClosed(_, _, _, _, _)
SumClosed(timestamps, power_values, from, to, i) ==
    IF i > Len(timestamps) THEN 0
    ELSE (IF from <= HourTicks(timestamps[i]) /\ HourTicks(timestamps[i]) <= to
             /\ i <= Len(power_values)
          THEN power_values[i] ELSE 0)
         + SumClosed(timestamps, power_values, from, to, i + 1)

\* the power of the first row of the axis inside [from, to), 0 when there is none
RECURSIVE FirstWithin(_, _, _, _, _)
FirstWithin(timestamps, power_values, from, to, i) ==
    IF i > Len(timestamps) THEN 0
    ELSE IF from <= HourTicks(timestamps[i]) /\ HourTicks(timestamps[i]) < to
            /\ i <= Len(power_values)
         THEN power_values[i]
         ELSE FirstWithin(timestamps, power_values, from, to, i + 1)

CalculateRemainingTodayEnergy(array_data, now) ==
    IF array_data.timestamps = << >> \/ array_data.power_forecast = << >> THEN 0
    ELSE LET today_end == Instant(DayStart(now.hour) + HoursPerDay - 1,
                                  SecondsPerHour - 1, MicrosPerSecond - 1)
         IN  SumClosed(array_data.timestamps, array_data.power_forecast,
                       Ticks(now), Ticks(today_end), 1)

CalculateThisHourEnergy(array_data, now) ==
    IF array_data.timestamps = << >> \/ array_data.power_forecast = << >> THEN 0
    ELSE LET current_hour_start == Ticks(Instant(now.hour, 0, 0))
             current_hour_end == current_hour_start + TicksPerHour
         IN  FirstWithin(array_data.timestamps, array_data.power_forecast,
                         current_hour_start, current_hour_end, 1)

CalculateNextHourEnergy(array_data, now) ==
    IF array_data.timestamps = << >> \/ array_data.power_forecast = << >> THEN 0
    ELSE LET next_hour_start == Ticks(Instant(now.hour, 0, 0)) + TicksPerHour
             next_hour_end == next_hour_start + TicksPerHour
         IN  FirstWithin(array_data.timestamps, array_data.power_forecast,
                         next_hour_start, next_hour_end, 1)

DashboardEnergyValue(array_data, sensor_type, now) ==
    IF sensor_type = "energy_production_remaining_today"
    THEN CalculateRemainingTodayEnergy(array_data, now)
    ELSE IF sensor_type = "energy_production_this_hour"
    THEN CalculateThisHourEnergy(array_data, now)
    ELSE CalculateNextHourEnergy(array_data, now)

RECURSIVE DashboardTotal(_, _, _, _)
DashboardTotal(d, sensor_type, now, k) ==
    IF k > Len(d) THEN 0
    ELSE DashboardEnergyValue(d[k].series, sensor_type, now)
         + DashboardTotal(d, sensor_type, now, k + 1)

\* SolarEnergyDashboardSensor.native_value for the three windowed sensor types
DashboardNativeValue(d, sensor_type, now) ==
    IF d = None THEN None ELSE Some(Round3(DashboardTotal(d, sensor_type, now, 1)))

\* the rows get_energy_dashboard_forecast lists: start_time <= timestamp < end_time
RECURSIVE DashboardRows(_, _, _, _, _)
DashboardRows(timestamps, power_values, start_time, end_time, i) ==
    IF i > Len(timestamps) THEN << >>
    ELSE (IF start_time <= HourTicks(timestamps[i]) /\ HourTicks(timestamps[i]) < end_time
             /\ i <= Len(power_values)
          THEN <<i>> ELSE << >>)
         \o DashboardRows(timestamps, power_values, start_time, end_time, i + 1)

RECURSIVE SumRows(_, _)
SumRows(power_values, rows) ==
    IF rows = << >> THEN 0 ELSE power_values[Head(rows)] + SumRows(power_values, Tail(rows))

GetEnergyDashboardForecast(d, forecast_type, now) ==
    IF d = None THEN None
    ELSE LET combined_data == CombineArrayData(d, now.hour)
             timestamps == combined_data.timestamps
             power_values == combined_data.power_forecast
             midnight == Ticks(Instant(DayStart(now.hour), 0, 0))
             start_time == IF forecast_type = "today" THEN midnight
                           ELSE IF forecast_type = "tomorrow"
                           THEN midnight + HoursPerDay * TicksPerHour
                           ELSE Ticks(now)
             end_time == IF forecast_type \in {"today", "tomorrow"}
                         THEN start_time + HoursPerDay * TicksPerHour
                         ELSE Ticks(Instant(DayStart(now.hour) + HoursPerDay - 1,
                                            SecondsPerHour - 1, now.microsecond))
                              + MicrosPerSecond
             rows == DashboardRows(timestamps, power_values, start_time, end_time, 1)
         IN  IF timestamps = << >> \/ power_values = << >> THEN None
             ELSE Some([forecast |-> [j \in 1..Len(rows) |->
                                        [start |-> timestamps[rows[j]],
                                         end |-> timestamps[rows[j]] + 1,
                                         energy_kwh |-> Round3(power_values[rows[j]])]],
                        total_energy |-> Round3(SumRows(power_values, rows)),
                        forecast_type |-> forecast_type,
                        generated_at |-> IsoFormat(now, TRUE)])

\* the rows handle_get_total_system_forecast lists: the loop ends at the first
\* timestamp after end_time and keeps the rows from now on
RECURSIVE TotalRows(_, _, _, _, _)
TotalRows(timestamps, power_values, now, end_time, i) ==
    IF i > Len(timestamps) THEN << >>
    ELSE IF HourTicks(timestamps[i]) > end_time THEN << >>
    ELSE (IF HourTicks(timestamps[i]) >= now /\ i <= Len(power_values)
          THEN <<i>> ELSE << >>)
         \o TotalRows(timestamps, power_values, now, end_time, i + 1)

HandleGetTotalSystemForecast(d, hours, now) ==
    LET combined_data == CombineArrayData(d, now.hour)
        timestamps == combined_data.timestamps
        power_values == combined_data.power_forecast
        end_time == Ticks(now) + hours * TicksPerHour
        rows == TotalRows(timestamps, power_values, Ticks(now), end_time, 1)
    IN  IF timestamps # << >> /\ power_values # << >>
        THEN [forecast |-> [j \in 1..Len(rows) |->
                               [datetime |-> timestamps[rows[j]],
                                power_kw |-> Round3(power_values[rows[j]]),
                                energy_kwh |-> Round3(power_values[rows[j]])]],
              total_energy_kwh |-> Round3(SumRows(power_values, rows)),
              arrays_count |-> Len(Arrays),
              hours_requested |-> hours,
              data_points |-> Len(rows),
              generated_at |-> IsoFormat(now, TRUE)]
        ELSE [forecast |-> << >>, error |-> "Invalid entry_id or no data available"]

(***************************************************************************)
(* The windowed figures as functions of the snapshot and the instant of    *)
(* the read: the snapshot holds one or two arrays whose hourly series      *)
(* start late on day 0 and may run past midnight; the hour of the read is  *)
(* the clock and its sub-hour fields are inputs of the read.               *)
(***************************************************************************)
WindowStarts == {22, 23}
WindowClocks == {21, 22, 23}
WindowHours == {1, 2}
WindowSensorTypes ==
    {"energy_production_remaining_today", "energy_production_this_hour",
     "energy_production_next_hour"}
ForecastTypes == {"today", "tomorrow", "remaining_today"}

WindowSeries == {SeriesOf(start, n, 1) : start \in WindowStarts, n \in 0..MaxCombineLen}

WindowInputs ==
    UNION {{[k \in 1..m |-> [name |-> CombineNames[k], series |-> f[k]]] :
               f \in [1..m -> WindowSeries]} : m \in 1..2}

InitWindows ==
    /\ clock \in WindowClocks
    /\ pc = "idle"
    /\ results = << >>
    /\ data \in WindowInputs
    /\ last_update_success = TRUE
    /\ partial_warning = None
    /\ read = NoRead
    /\ flow = NoFlow
    /\ config_entry = None

ReadDashboardSensor(sensor_type, second, microsecond) ==
    LET now == Instant(clock, second, microsecond)
    IN  /\ read' = [kind |-> "dashboard_sensor", sensor_type |-> sensor_type, now |-> now,
                    value |-> DashboardNativeValue(data, sensor_type, now)]
        /\ UNCHANGED <<clock, pc, results, data, last_update_success, partial_warning, flow, config_entry>>

ReadDashboardForecast(forecast_type, second, microsecond) ==
    LET now == Instant(clock, second, microsecond)
    IN  /\ read' = [kind |-> "dashboard_forecast", forecast_type |-> forecast_type,
                    now |-> now,
                    value |-> GetEnergyDashboardForecast(data, forecast_type, now)]
        /\ UNCHANGED <<clock, pc, results, data, last_update_success, partial_warning, flow, config_entry>>

ReadTotalSystemForecast(hours, second, microsecond) ==
    LET now == Instant(clock, second, microsecond)
    IN  /\ read' = [kind |-> "total_system_forecast", hours |-> hours, now |-> now,
                    value |-> HandleGetTotalSystemForecast(data, hours, now)]
        /\ UNCHANGED <<clock, pc, results, data, last_update_success, partial_warning, flow, config_entry>>

NextWindows ==
    \/ \E sensor_type \in WindowSensorTypes, second \in 0..(SecondsPerHour - 1),
          microsecond \in 0..(MicrosPerSecond - 1) :
           ReadDashboardSensor(sensor_type, second, microsecond)
    \/ \E forecast_type \in ForecastTypes, second \in 0..(SecondsPerHour - 1),
          microsecond \in 0..(MicrosPerSecond - 1) :
           ReadDashboardForecast(forecast_type, second, microsecond)
    \/ \E hours \in WindowHours, second \in 0..(SecondsPerHour - 1),
          microsecond \in 0..(MicrosPerSecond - 1) :
           ReadTotalSystemForecast(hours, second, microsecond)

SpecWindows == InitWindows /\ [][NextWindows]_vars

(***************************************************************************)
(* The power model as a function of its arguments: the hour of the         *)
(* timestamp is the clock, the other arguments are inputs of the one call. *)
(***************************************************************************)
PowerRadiations == {0 - 100, 0, 100, 800}
PowerKwps == {1, 5}
PowerDeclinations == {30}
PowerAzimuths == {90, 180}
PowerDampings == {0, 5, 10}
PowerTemperatures == {0 - 25, 25, 50, 300}
PowerCloudCovers == {0, 25, 50, 100}

InitPower ==
    /\ clock \in 0..(HoursPerDay - 1)
    /\ pc = "idle"
    /\ results = << >>
    /\ data = None
    /\ last_update_success = TRUE
    /\ partial_warning = None
    /\ read = NoRead
    /\ flow = NoFlow
    /\ config_entry = None

ComputePower(radiation, kwp, declination, azimuth, damping, temperature, cloud_cover) ==
    /\ read = NoRead
    /\ read' = [kind |-> "power", radiation |-> radiation, kwp |-> kwp,
                declination |-> declination, azimuth |-> azimuth, damping |-> damping,
                timestamp |-> clock, temperature |-> temperature,
                cloud_cover |-> cloud_cover,
                value |-> CalculateSolarPower(radiation, kwp, declination, azimuth, damping,
                                              clock, temperature, cloud_cover)]
    /\ UNCHANGED <<clock, pc, results, data, last_update_success, partial_warning, flow, config_entry>>

OrientationDeclinations == {0, 30, 90}
OrientationAzimuths == {0, 90, 180, 270}

\* one call of _get_orientation_factor at the clock's hour
ReadOrientationFactor(declination, azimuth) ==
    /\ read = NoRead
    /\ read' = [kind |-> "orientation_factor", declination |-> declination,
                azimuth |-> azimuth, timestamp |-> clock,
                value |-> GetOrientationFactor(declination, azimuth, clock)]
    /\ UNCHANGED <<clock, pc, results, data, last_update_success, partial_warning, flow, config_entry>>

NextPower ==
    \/ \E declination \in OrientationDeclinations, azimuth \in OrientationAzimuths :
            ReadOrientationFactor(declination, azimuth)
    \/ \E radiation \in PowerRadiations, kwp \in PowerKwps, declination \in PowerDeclinations,
       azimuth \in PowerAzimuths, damping \in PowerDampings,
       temperature \in PowerTemperatures, cloud_cover \in PowerCloudCovers :
        ComputePower(radiation, kwp, declination, azimuth, damping, temperature, cloud_cover)

SpecPower == InitPower /\ [][NextPower]_vars

(***************************************************************************)
(* One fetch as a function of what the request came to: a failure, or a    *)
(* response whose hourly block has up to MaxLen times and, for each of the *)
(* four value lists, any length up to that of the times and null or a      *)
(* number at each place.                                                   *)
(***************************************************************************)
ProcessStart == HoursPerDay \div 2
ProcessRadiations == {None, Some(0), Some(800)}
ProcessTemperatures == {None, Some(50)}
ProcessCloudCovers == {None, Some(50)}
ProcessWindSpeeds == {None, Some(3)}

ListsUpTo(n, items) == UNION {[1..m -> items] : m \in 0..n}

ProcessHourly ==
    UNION {{[time |-> [i \in 1..n |-> ProcessStart + i - 1],
             shortwave_radiation |-> radiation,
             temperature_2m |-> temperature,
             cloud_cover |-> cloud_cover,
             wind_speed_10m |-> wind_speed] :
               radiation \in ListsUpTo(n, ProcessRadiations),
               temperature \in ListsUpTo(n, ProcessTemperatures),
               cloud_cover \in ListsUpTo(n, ProcessCloudCovers),
               wind_speed \in ListsUpTo(n, ProcessWindSpeeds)} : n \in 0..MaxLen}

\* blocks of one more time, with complete lists, whose irradiance is null at any places
ProcessGapHourly ==
    {[time |-> [i \in 1..(MaxLen + 1) |-> ProcessStart + i - 1],
      shortwave_radiation |-> radiation,
      temperature_2m |-> [i \in 1..(MaxLen + 1) |-> Some(25)],
      cloud_cover |-> [i \in 1..(MaxLen + 1) |-> Some(0)],
      wind_speed_10m |-> [i \in 1..(MaxLen + 1) |-> Some(0)]] :
        radiation \in [1..(MaxLen + 1) -> {None, Some(800)}]}

ProcessOutcomes ==
    {[kind |-> "timeout"], [kind |-> "client_error"],
     [kind |-> "response", status |-> 500, json |-> JsonBody(TRUE, TRUE, TRUE, NoHourly)],
     [kind |-> "response", status |-> 200, json |-> JsonBody(FALSE, FALSE, FALSE, NoHourly)],
     [kind |-> "response", status |-> 200, json |-> JsonBody(TRUE, FALSE, FALSE, NoHourly)],
     [kind |-> "response", status |-> 200, json |-> JsonBody(TRUE, TRUE, FALSE, NoHourly)]}
    \cup {[kind |-> "response", status |-> 200, json |-> JsonBody(TRUE, TRUE, TRUE, hourly)]
          : hourly \in ProcessHourly \cup ProcessGapHourly}

InitProcess ==
    /\ clock = ProcessStart
    /\ pc = "idle"
    /\ results = << >>
    /\ data = None
    /\ last_update_success = TRUE
    /\ partial_warning = None
    /\ read = NoRead
    /\ flow = NoFlow
    /\ config_entry = None

FetchOne(outcome) ==
    /\ read = NoRead
    /\ read' = [kind |-> "fetch", outcome |-> outcome,
                result |-> FetchArrayForecast(outcome, Arrays[1], clock)]
    /\ UNCHANGED <<clock, pc, results, data, last_update_success, partial_warning, flow, config_entry>>

NextProcess == \E outcome \in ProcessOutcomes : FetchOne(outcome)

SpecProcess == InitProcess /\ [][NextProcess]_vars

(***************************************************************************)
(* Configuration.  The initial flow collects arrays and creates the config *)
(* entry; the options flow edits a copy of the entry's arrays and stores   *)
(* it on "save".  A flow is a record of its kind, the step whose form is   *)
(* shown (step_id), self.arrays, self.current_array_index and the errors   *)
(* of the form.  An array list is capped at MaxArrays arrays.              *)
(***************************************************************************)
MaxArrays == 2
ConfigNames == {"A", "B", "C"}
ConfigKwps == {3, 5}

\* what the user submits in an array form
ArrayInputs ==
    {[name |-> name, declination |-> 30, azimuth |-> 180, kwp |-> kwp] :
        name \in ConfigNames, kwp \in ConfigKwps}

\* array_config: the submitted fields, damping and horizon at their defaults
ArrayConfig(user_input) ==
    [name |-> user_input.name, declination |-> user_input.declination,
     azimuth |-> user_input.azimuth, kwp |-> user_input.kwp, damping |-> 0, horizon |-> ""]

\* Variant: the name check is made when adding only, never when editing.
DuplicateNameOnAddOnly(arrays, new_name, skip) ==
    skip = 0 /\ \E i \in 1..Len(arrays) : arrays[i].name = new_name

\* any(array[CONF_NAME] == new_name ...) over the arrays other than the one at skip
\* (skip is 0 when adding)
DuplicateName(arrays, new_name, skip) ==
    \E i \in 1..Len(arrays) : i # skip /\ arrays[i].name = new_name

ShowForm(kind, step_id, arrays, current_array_index, errors) ==
    [kind |-> kind, step_id |-> step_id, arrays |-> arrays,
     current_array_index |-> current_array_index, errors |-> errors]

\* list.pop(array_index), array_index counted from 1
Pop(arrays, array_index) ==
    [i \in 1..(Len(arrays) - 1) |-> IF i < array_index THEN arrays[i] ELSE arrays[i + 1]]

ConfigUnchanged ==
    UNCHANGED <<clock, pc, results, data, last_update_success, partial_warning, read>>

\* the user opens the initial flow
StartConfigFlow ==
    /\ flow = NoFlow
    /\ config_entry = None
    /\ flow' = ShowForm("config", "user", << >>, None, None)
    /\ UNCHANGED config_entry
    /\ ConfigUnchanged

ConfigStepUser ==
    /\ flow.kind = "config"
    /\ flow.step_id = "user"
    /\ flow' = ShowForm("config", "add_array", flow.arrays, None, None)
    /\ UNCHANGED config_entry
    /\ ConfigUnchanged

ConfigStepAddArray(add_array, finish_setup) ==
    /\ flow.kind = "config"
    /\ flow.step_id = "add_array"
    /\ IF add_array
       THEN /\ flow' = ShowForm("config", "array_config", flow.arrays, None, None)
            /\ UNCHANGED config_entry
       ELSE IF finish_setup
       THEN IF flow.arrays = << >>
            THEN /\ flow' = ShowForm("config", "add_array", flow.arrays, None,
                                     Some("no_arrays"))
                 /\ UNCHANGED config_entry
            ELSE /\ flow' = NoFlow
                 /\ config_entry' = Some(flow.arrays)
       ELSE /\ flow' = ShowForm("config", "add_array", flow.arrays, None, None)
            /\ UNCHANGED config_entry
    /\ ConfigUnchanged

ConfigStepArrayConfig(user_input) ==
    /\ flow.kind = "config"
    /\ flow.step_id = "array_config"
    /\ IF DuplicateName(flow.arrays, user_input.name, 0)
       THEN flow' = ShowForm("config", "array_config", flow.arrays, None,
                             Some("duplicate_name"))
       ELSE /\ Len(flow.arrays) < MaxArrays
            /\ flow' = ShowForm("config", "add_array",
                                Append(flow.arrays, ArrayConfig(user_input)), None, None)
    /\ UNCHANGED config_entry
    /\ ConfigUnchanged

\* the user opens the options flow of the stored entry
StartOptionsFlow ==
    /\ flow = NoFlow
    /\ config_entry # None
    /\ flow' = ShowForm("options", "main_menu", Val(config_entry), None, None)
    /\ UNCHANGED config_entry
    /\ ConfigUnchanged

\* _update_config_entry: the entry takes self.arrays and the flow ends
UpdateConfigEntry ==
    /\ config_entry' = Some(flow.arrays)
    /\ flow' = NoFlow

OptionsStepMainMenu(action) ==
    /\ flow.kind = "options"
    /\ flow.step_id = "main_menu"
    /\ IF action = "add_array"
       THEN /\ flow' = ShowForm("options", "add_array", flow.arrays,
                                flow.current_array_index, None)
            /\ UNCHANGED config_entry
       ELSE IF action = "edit_array"
       THEN /\ flow' = ShowForm("options",
                                IF flow.arrays = << >> THEN "main_menu"
                                ELSE "select_array_to_edit",
                                flow.arrays, flow.current_array_index, None)
            /\ UNCHANGED config_entry
       ELSE IF action = "delete_array"
       THEN /\ flow' = ShowForm("options",
                                IF flow.arrays = << >> THEN "main_menu"
                                ELSE "select_array_to_delete",
                                flow.arrays, flow.current_array_index, None)
            /\ UNCHANGED config_entry
       ELSE UpdateConfigEntry
    /\ ConfigUnchanged

OptionsStepAddArray(user_input) ==
    /\ flow.kind = "options"
    /\ flow.step_id = "add_array"
    /\ IF DuplicateName(flow.arrays, user_input.name, 0)
       THEN flow' = ShowForm("options", "add_array", flow.arrays, flow.current_array_index,
                             Some("duplicate_name"))
       ELSE /\ Len(flow.arrays) < MaxArrays
            /\ flow' = ShowForm("options", "main_menu",
                                Append(flow.arrays, ArrayConfig(user_input)),
                                flow.current_array_index, None)
    /\ UNCHANGED config_entry
    /\ ConfigUnchanged

OptionsStepSelectArrayToEdit(array_index) ==
    /\ flow.kind = "options"
    /\ flow.step_id = "select_array_to_edit"
    /\ array_index \in 1..Len(flow.arrays)
    /\ flow' = ShowForm("options", "edit_array", flow.arrays, Some(array_index), None)
    /\ UNCHANGED config_entry
    /\ ConfigUnchanged

OptionsStepEditArray(user_input) ==
    /\ flow.kind = "options"
    /\ flow.step_id = "edit_array"
    /\ IF DuplicateName(flow.arrays, user_input.name, Val(flow.current_array_index))
       THEN flow' = ShowForm("options", "edit_array", flow.arrays, flow.current_array_index,
                             Some("duplicate_name"))
       ELSE flow' = ShowForm("options", "main_menu",
                             [flow.arrays EXCEPT ![Val(flow.current_array_index)] =
                                 ArrayConfig(user_input)],
                             flow.current_array_index, None)
    /\ UNCHANGED config_entry
    /\ ConfigUnchanged

OptionsStepSelectArrayToDelete(array_index) ==
    /\ flow.kind = "options"
    /\ flow.step_id = "select_array_to_delete"
    /\ array_index \in 1..Len(flow.arrays)
    /\ flow' = ShowForm("options", "main_menu", Pop(flow.arrays, array_index),
                        flow.current_array_index, None)
    /\ UNCHANGED config_entry
    /\ ConfigUnchanged

InitConfig ==
    /\ clock = StartClock
    /\ pc = "idle"
    /\ results = << >>
    /\ data = None
    /\ last_update_success = TRUE
    /\ partial_warning = None
    /\ read = NoRead
    /\ flow = NoFlow
    /\ config_entry = None

MenuActions == {"add_array", "edit_array", "delete_array", "save"}

NextConfig ==
    \/ StartConfigFlow
    \/ ConfigStepUser
    \/ \E add_array \in BOOLEAN, finish_setup \in BOOLEAN :
           ConfigStepAddArray(add_array, finish_setup)
    \/ \E user_input \in ArrayInputs : ConfigStepArrayConfig(user_input)
    \/ StartOptionsFlow
    \/ \E action \in MenuActions : OptionsStepMainMenu(action)
    \/ \E user_input \in ArrayInputs : OptionsStepAddArray(user_input)
    \/ \E array_index \in 1..MaxArrays : OptionsStepSelectArrayToEdit(array_index)
    \/ \E user_input \in ArrayInputs : OptionsStepEditArray(user_input)
    \/ \E array_index \in 1..MaxArrays : OptionsStepSelectArrayToDelete(array_index)

SpecConfig == InitConfig /\ [][NextConfig]_vars

(***************************************************************************)
(* The summary of one series as a function of where the system runs: the   *)
(* clock is the instant in hours of UTC, and datetime.now().astimezone()    *)
(* is that instant on the wall clock of the system's zone.  The entries of  *)
(* a series are wall-clock hours of the forecast's place, whatever the      *)
(* system's zone.  replace(tzinfo=uk_tz) keeps the wall-clock fields, so    *)
(* every comparison is one of wall-clock hours.                             *)
(***************************************************************************)
ZoneInstants == {22, 23}
ZoneOffsets == {0, 1, 2}

\* datetime.now().astimezone(): wall-clock hours of a system utc_offset hours east of UTC
LocalNow(instant, utc_offset) == instant + utc_offset

InitZone ==
    /\ clock \in ZoneInstants
    /\ pc = "idle"
    /\ results = << >>
    /\ data \in WindowInputs
    /\ last_update_success = TRUE
    /\ partial_warning = None
    /\ read = NoRead
    /\ flow = NoFlow
    /\ config_entry = None

\* the summary metrics of array k computed on a system utc_offset hours east of UTC
ReadSummaryMetrics(k, utc_offset) ==
    LET now == LocalNow(clock, utc_offset)
        series == data[k].series
    IN  /\ read' = [kind |-> "summary", name |-> data[k].name, utc_offset |-> utc_offset,
                    now |-> now,
                    value |-> CalculateSummaryMetrics(series.timestamps,
                                                      series.power_forecast, now)]
        /\ UNCHANGED <<clock, pc, results, data, last_update_success, partial_warning, flow, config_entry>>

NextZone ==
    \E k \in 1..Len(data), utc_offset \in ZoneOffsets : ReadSummaryMetrics(k, utc_offset)

SpecZone == InitZone /\ [][NextZone]_vars

(***************************************************************************)
(* Properties.                                                             *)
(***************************************************************************)
\* a step in which _async_update_data ends, by returning or by raising
CycleEnds == pc = "fetching" /\ pc' = "idle"

AllFailed(res) == \A i \in 1..Len(res) : res[i] = Failed
SomeOk(res) == \E i \in 1..Len(res) : res[i].st = "ok"
SomeFailed(res) == \E i \in 1..Len(res) : res[i] = Failed

\* C1: a refresh fails only when every array's fetch failed; with at least one
\* successful fetch it returns a snapshot, so no single array's error fails it.
C1_FailsOnlyWhenAllFailed ==
    [][CycleEnds =>
          /\ (~last_update_success') <=> AllFailed(results)
          /\ SomeOk(results) => (last_update_success' /\ data' # None)]_vars

\* a cycle that ended with one failed and one successful fetch published a snapshot
C1_Witness ==
    /\ pc = "idle"
    /\ last_update_success
    /\ partial_warning = Some(<<1, Len(Arrays)>>)
    /\ data # None

\* C2: after a partly failed refresh the snapshot holds the fresh series of every
\* array that succeeded and, for every array that failed, exactly its entry of the
\* previous snapshot (none when it had none); the refresh succeeds and warns.
C2_PartialFailureKeepsStale ==
    [][(CycleEnds /\ SomeOk(results) /\ SomeFailed(results)) =>
          /\ \A i \in ArrayIdx :
                LET array_name == Arrays[i].name
                IN  IF results[i].st = "ok"
                    THEN /\ Has(data', array_name)
                         /\ Get(data', array_name) = results[i].series
                         /\ Get(data', array_name).last_updated.t = clock
                    ELSE IF data # None /\ Has(data, array_name)
                         THEN /\ Has(data', array_name)
                              /\ Get(data', array_name) = Get(data, array_name)
                         ELSE ~Has(data', array_name)
          /\ last_update_success'
          /\ partial_warning' # None
          /\ Val(partial_warning')[1] = Cardinality({i \in ArrayIdx : results[i].st = "ok"})
          /\ Val(partial_warning')[1] < Val(partial_warning')[2]]_vars

\* a partly failed cycle left a snapshot with one fresh entry and one older entry
C2_Witness ==
    /\ pc = "idle"
    /\ partial_warning # None
    /\ last_update_success
    /\ Len(data) = 2
    /\ data[1].series.last_updated.t # data[2].series.last_updated.t

\* C3: when every fetch of a cycle fails, the refresh fails and the published
\* snapshot is left exactly as it was.
C3_AllFailedLeavesSnapshot ==
    [][(CycleEnds /\ AllFailed(results)) =>
          (data' = data /\ ~last_update_success')]_vars

\* a failed cycle behind it, the coordinator still holds a snapshot
C3_Witness ==
    /\ pc = "idle"
    /\ ~last_update_success
    /\ data # None

\* C4: the published snapshot changes only in the step that ends a cycle, after all
\* its fetches have finished, and then to the whole new snapshot: while fetches are
\* pending a reader finds the previous snapshot untouched.
C4_NoPartialPublish ==
    [][data' # data =>
          /\ CycleEnds
          /\ AllDone(results)
          /\ \A i \in ArrayIdx :
                results[i].st = "ok" =>
                    (Has(data', Arrays[i].name)
                     /\ Get(data', Arrays[i].name) = results[i].series)]_vars

\* a sensor is read while one fetch has delivered a newer series and another is pending
C4_Witness ==
    /\ pc = "fetching"
    /\ read.kind = "array_sensor"
    /\ data # None
    /\ \E i, j \in ArrayIdx :
          /\ results[j] = Pending
          /\ results[i].st = "ok"
          /\ Has(data, Arrays[i].name)
          /\ Get(data, Arrays[i].name) # results[i].series

\* C5: the end of one fetch, by error or timeout as by success, changes that
\* array's result only; a pending sibling stays pending and can still finish, and
\* the refresh can end exactly when no fetch is pending.
C5_FetchesIndependent ==
    /\ [][(pc = "fetching" /\ pc' = "fetching") =>
              \A i, j \in ArrayIdx :
                  (i # j /\ results'[i] # results[i]) => results'[j] = results[j]]_vars
    /\ [](pc = "fetching" =>
              /\ AllDone(results) <=> ENABLED (RefreshSucceed \/ RefreshFail)
              /\ \A j \in ArrayIdx : results[j] = Pending => ENABLED FetchDone(j))

\* one fetch has failed and its sibling has succeeded in the same cycle
C5_Witness ==
    /\ pc = "fetching"
    /\ \E i, j \in ArrayIdx : results[i] = Failed /\ results[j].st = "ok"

\* a sensor was read after a cycle in which every fetch failed, a snapshot being held
ReadAfterFailedCycle ==
    /\ ~last_update_success
    /\ data # None
    /\ \/ read.kind = "total_sensor"
       \/ read.kind = "array_sensor" /\ Has(data, read.name)

\* the value a sensor shows for the held snapshot: the summary of the array's entry,
\* or the sum of the entries' summaries, rounded to hundredths of a kW
SnapshotValue ==
    IF read.kind = "array_sensor"
    THEN Some(Round2(Get(data, read.name)[read.sensor_type]))
    ELSE Some(Round2(TotalOf(data, read.sensor_type, 1)))

\* C6 as stated: after a cycle in which all arrays failed, a sensor read yields the
\* values of the last published snapshot and the entity is not made unavailable.
C6_ReadAfterFailureAvailable ==
    ReadAfterFailedCycle => (read.native_value = SnapshotValue /\ read.available)

\* C6, amended: after a cycle in which all arrays failed, a sensor read still yields
\* the values of the last published snapshot, with the entry's old last_updated, but
\* the entity reports itself unavailable.
C6_ReadAfterFailureKeepsValues ==
    ReadAfterFailedCycle =>
        /\ read.native_value = SnapshotValue
        /\ ~read.available
        /\ read.kind = "array_sensor" =>
               read.last_updated = Some(Get(data, read.name).last_updated)

\* an array sensor with a non-zero value was read after a failed cycle
C6_Witness ==
    /\ ReadAfterFailedCycle
    /\ read.kind = "array_sensor"
    /\ read.native_value # None
    /\ Val(read.native_value) > 0

\* C7: a refresh in which every fetch succeeds, run after one in which every fetch
\* succeeded, publishes the same array keys, each with the same or a later
\* last_updated.
C7_RepeatedRefreshSameKeys ==
    [][(/\ CycleEnds
        /\ \A i \in ArrayIdx : results[i].st = "ok"
        /\ data # None
        /\ last_update_success
        /\ partial_warning = None) =>
          /\ Keys(data') = Keys(data)
          /\ \A k \in Keys(data) :
                Get(data', k).last_updated.t >= Get(data, k).last_updated.t]_vars

\* every fetch of a second cycle has succeeded, an hour or more after the cycle
\* that published the held snapshot with every fetch successful
C7_Witness ==
    /\ pc = "fetching"
    /\ \A i \in ArrayIdx : results[i].st = "ok"
    /\ data # None
    /\ last_update_success
    /\ partial_warning = None
    /\ \E k \in Keys(data) : Get(data, k).last_updated.t < clock

\* C8 as stated: in every published snapshot the timestamp axis of the combined
\* series equals the timestamp axis of every array of the snapshot.
C8_CombinedAxisIsEveryAxis ==
    data # None =>
        \A k \in 1..Len(data) :
            data[k].series.timestamps = CombineArrayData(data, clock).timestamps

RECURSIVE C9_SumAt(_, _, _)
C9_SumAt(d, i, k) ==
    IF k = 0 THEN 0
    ELSE C9_SumAt(d, i, k - 1)
         + (IF i <= Len(d[k].series.power_forecast) THEN d[k].series.power_forecast[i] ELSE 0)

\* C9: the combined series has the axis of the first series of the snapshot and, at
\* each index of that axis, the sum over all series of the power at that index, a
\* series without that index adding zero; indices past the axis are dropped, and the
\* timestamps of the other series play no part.
C9_CombineByIndex ==
    (read.kind = "combined" /\ data # None) =>
        /\ read.value.timestamps = data[1].series.timestamps
        /\ Len(read.value.power_forecast) = Len(data[1].series.timestamps)
        /\ \A i \in 1..Len(data[1].series.timestamps) :
              read.value.power_forecast[i] = C9_SumAt(data, i, Len(data))

\* combined: a first series, a shorter one on another axis, and a longer one
C9_Witness ==
    /\ read.kind = "combined"
    /\ Len(data) = 3
    /\ Len(data[2].series.timestamps) > 0
    /\ Len(data[2].series.timestamps) < Len(data[1].series.timestamps)
    /\ data[2].series.timestamps[1] # data[1].series.timestamps[1]
    /\ Len(data[3].series.timestamps) > Len(data[1].series.timestamps)

C10_Identical ==
    \A k \in 1..Len(data) : data[k].series = data[1].series

\* C10: combining N series with the same axis and the same power values gives that
\* axis with N times the single power at every index.
C10_CombineIdentical ==
    (read.kind = "combined" /\ data # None /\ C10_Identical) =>
        /\ read.value.timestamps = data[1].series.timestamps
        /\ Len(read.value.power_forecast) = Len(data[1].series.power_forecast)
        /\ \A i \in 1..Len(data[1].series.power_forecast) :
              read.value.power_forecast[i] = Len(data) * data[1].series.power_forecast[i]

\* three identical series of two different non-zero powers were combined
C10_Witness ==
    /\ read.kind = "combined"
    /\ Len(data) = 3
    /\ C10_Identical
    /\ Len(data[1].series.power_forecast) >= 2
    /\ data[1].series.power_forecast[1] # data[1].series.power_forecast[2]

AggTimestamps == data[1].series.timestamps
AggPower == data[1].series.power_forecast

RECURSIVE SumOver(_, _)
SumOver(I, f) ==
    IF I = {} THEN 0
    ELSE LET i == CHOOSE x \in I : TRUE IN f[i] + SumOver(I \ {i}, f)

InInterval(start_time, end_time) ==
    {i \in 1..Len(AggTimestamps) : start_time <= AggTimestamps[i] /\ AggTimestamps[i] < end_time}

\* C11: the daily energy over [start, end) is the sum of the power of exactly the
\* entries with start <= timestamp < end: an entry at start counts, one at end does not.
C11_DailyEnergyHalfOpen ==
    read.kind = "daily_energy" =>
        read.value = SumOver(InInterval(read.start_time, read.end_time), AggPower)

\* the energy of an interval with an entry exactly at its start and one exactly at its end
C11_Witness ==
    /\ read.kind = "daily_energy"
    /\ \E i, j \in 1..Len(AggTimestamps) :
          /\ AggTimestamps[i] = read.start_time
          /\ AggTimestamps[j] = read.end_time
          /\ read.value = AggPower[i]

\* C12: the peak power over [start, end) is the greatest power of an entry with
\* start <= timestamp < end, and 0 when no entry lies in the interval.
C12_PeakPowerHalfOpen ==
    read.kind = "peak_power" =>
        LET I == InInterval(read.start_time, read.end_time)
        IN  IF I = {} THEN read.value = 0
            ELSE /\ \E i \in I : read.value = AggPower[i]
                 /\ \A i \in I : read.value >= AggPower[i]

\* the peak of an interval that holds two entries of different power, below the
\* power of the entry exactly at the interval's end
C12_Witness ==
    /\ read.kind = "peak_power"
    /\ \E i, j \in InInterval(read.start_time, read.end_time) : AggPower[i] < AggPower[j]
    /\ \E i \in 1..Len(AggTimestamps) :
          AggTimestamps[i] = read.end_time /\ AggPower[i] > read.value

\* C13: the current power is the power of the entry nearest to now, the first such
\* entry of the series when several are equally near, and 0 for an empty series.
C13_CurrentPowerNearestFirst ==
    read.kind = "current_power" =>
        IF AggTimestamps = << >> THEN read.value = 0
        ELSE LET near == {i \in 1..Len(AggTimestamps) :
                            \A j \in 1..Len(AggTimestamps) :
                                Abs(AggTimestamps[i] - read.now) <= Abs(AggTimestamps[j] - read.now)}
                 first == CHOOSE i \in near : \A j \in near : i <= j
             IN  read.value = AggPower[first]

\* two entries of different power equally near to now, the earlier one returned
C13_Witness ==
    /\ read.kind = "current_power"
    /\ \E i, j \in 1..Len(AggTimestamps) :
          /\ i < j
          /\ read.now - AggTimestamps[i] = AggTimestamps[j] - read.now
          /\ \A k \in 1..Len(AggTimestamps) :
                Abs(AggTimestamps[k] - read.now) >= read.now - AggTimestamps[i]
          /\ AggPower[i] # AggPower[j]
          /\ read.value = AggPower[i]

\* the sum of the power of the rows of a series with from <= timestamp < to, in ticks
HalfOpenSum(series, from, to) ==
    SumOver({i \in 1..Len(series.timestamps) :
                /\ i <= Len(series.power_forecast)
                /\ from <= HourTicks(series.timestamps[i])
                /\ HourTicks(series.timestamps[i]) < to},
            series.power_forecast)

RECURSIVE HalfOpenTotal(_, _, _, _)
HalfOpenTotal(d, from, to, k) ==
    IF k = 0 THEN 0 ELSE HalfOpenSum(d[k].series, from, to) + HalfOpenTotal(d, from, to, k - 1)

NextMidnight(now) == HourTicks(DayStart(now.hour) + HoursPerDay)
HourStart(now) == HourTicks(now.hour)

SensorWindowsHalfOpen ==
    read.kind = "dashboard_sensor" =>
        LET from == IF read.sensor_type = "energy_production_remaining_today"
                    THEN Ticks(read.now)
                    ELSE IF read.sensor_type = "energy_production_this_hour"
                    THEN HourStart(read.now)
                    ELSE HourStart(read.now) + TicksPerHour
            to == IF read.sensor_type = "energy_production_remaining_today"
                  THEN NextMidnight(read.now)
                  ELSE from + TicksPerHour
        IN  read.value = Some(Round3(HalfOpenTotal(data, from, to, Len(data))))

RemainingTodayForecastHalfOpen ==
    (read.kind = "dashboard_forecast" /\ read.forecast_type = "remaining_today"
        /\ read.value # None) =>
        Val(read.value).total_energy =
            Round3(HalfOpenSum(CombineArrayData(data, clock), Ticks(read.now),
                               NextMidnight(read.now)))

NextHoursHalfOpen ==
    (read.kind = "total_system_forecast" /\ "total_energy_kwh" \in DOMAIN read.value) =>
        read.value.total_energy_kwh =
            Round3(HalfOpenSum(CombineArrayData(data, clock), Ticks(read.now),
                               Ticks(read.now) + read.hours * TicksPerHour))

\* C14: each windowed energy figure (this hour, next hour, remaining today, next N
\* hours) is the sum of the power of the entries inside the half-open window
\* [window_start, window_end), so an entry exactly at window_end is never counted.
C14_WindowsHalfOpen ==
    /\ SensorWindowsHalfOpen
    /\ RemainingTodayForecastHalfOpen
    /\ NextHoursHalfOpen

\* C15: the computed power is exactly 0 whenever the irradiance is <= 0, whatever the
\* peak power, declination, azimuth, damping, timestamp, temperature and cloud cover.
C15_ZeroWithoutIrradiance ==
    (read.kind = "power" /\ read.radiation <= 0) => read.value = 0

\* negative irradiance at a temperature where the product of the factors is positive
C15_Witness ==
    /\ read.kind = "power"
    /\ read.radiation < 0
    /\ read.temperature > 275
    /\ read.damping < 10
    /\ HourOf(read.timestamp) = 12

\* C16: for peak power > 0, damping in [0,1], cloud cover in [0,100], any temperature
\* and any hour the computed power is >= 0, also at damping 1 and cloud cover 100.
C16_PowerNonNegative ==
    (read.kind = "power" /\ read.kwp > 0 /\ read.damping \in 0..10
        /\ read.cloud_cover \in 0..100) => read.value >= 0

\* positive irradiance at noon with a negative temperature factor: the clamp acts
C16_Witness ==
    /\ read.kind = "power"
    /\ read.radiation > 0
    /\ read.temperature > 275
    /\ read.damping < 10
    /\ HourOf(read.timestamp) = 12
    /\ read.value = 0

\* C17: with the other arguments fixed, the computed power at a cloud cover c2 is <=
\* the computed power at any cloud cover c1 <= c2.
C17_MonotoneInCloudCover ==
    read.kind = "power" =>
        \A c2 \in PowerCloudCovers :
            read.cloud_cover <= c2 =>
                CalculateSolarPower(read.radiation, read.kwp, read.declination, read.azimuth,
                                    read.damping, read.timestamp, read.temperature, c2)
                    <= read.value

\* a positive power under a clear sky that full cloud cover lowers
C17_Witness ==
    /\ read.kind = "power"
    /\ read.cloud_cover = 0
    /\ read.value > 0
    /\ CalculateSolarPower(read.radiation, read.kwp, read.declination, read.azimuth,
                           read.damping, read.timestamp, read.temperature, 100)
           < read.value

\* orientation factor by hour of day, in tenths
OrientationTenths(hour) ==
    IF hour \in 10..16 THEN 10
    ELSE IF hour \in {8, 9, 17, 18} THEN 6
    ELSE IF hour \in {6, 7, 19, 20} THEN 2
    ELSE 0

\* (irradiance/1000) * kwp * (1 - 0.004 (T - 25)) * orientation * (1 - 0.8 cloud/100)
\* * (1 - damping), in units of 1e-7 kW: 0.004 (T - 25) is (T - 25)/25 tenths and
\* 0.8 cloud/100 is 2 (cloud/25) tenths
PowerFormula ==
    read.radiation * read.kwp * (10 - (read.temperature - 25) \div 25)
        * OrientationTenths(HourOf(read.timestamp))
        * (10 - 2 * (read.cloud_cover \div 25)) * (10 - read.damping)

IsExample(hour) ==
    /\ read.kind = "power"
    /\ read.kwp = 5 /\ read.radiation = 800 /\ read.temperature = 25
    /\ read.cloud_cover = 0 /\ read.damping = 0
    /\ HourOf(read.timestamp) = hour

\* C18: for irradiance > 0 the computed power is max(0, (irradiance/1000) * kwp
\* * (1 - 0.004 (T - 25)) * orientation(hour) * (1 - 0.8 cloud/100) * (1 - damping));
\* 5 kWp at 800 W/m2, 25 C, clear sky, no damping give 4.0 kW at 12:00 and 0.8 kW at 07:00.
C18_PowerFormula ==
    /\ (read.kind = "power" /\ read.radiation > 0) =>
           read.value = Max(0, PowerFormula)
    /\ IsExample(12) => read.value = 4 * UnitsPerKW
    /\ IsExample(7) => read.value * 10 = 8 * UnitsPerKW

\* the 07:00 example
C18_Witness == IsExample(7) /\ read.value > 0

FetchedHourly == JsonHourly(read.outcome.json)
FetchedSeries == read.result.series
IsProcessed ==
    /\ read.kind = "fetch"
    /\ read.outcome.kind = "response"
    /\ read.outcome.status = 200
    /\ read.outcome.json.parseable
    /\ read.outcome.json.is_object

\* the places of the hourly block whose irradiance is present and not null
WithIrradiance ==
    {i \in 1..Len(FetchedHourly.time) :
        i <= Len(FetchedHourly.shortwave_radiation)
        /\ FetchedHourly.shortwave_radiation[i] # None}

PresentOr(list, i, default) ==
    IF i \in DOMAIN list /\ list[i] # None THEN list[i][1] ELSE default

C20_EmptyResponseIsSuccess ==
    (IsProcessed /\ WithIrradiance = {}) =>
        /\ read.result.st = "ok"
        /\ FetchedSeries.timestamps = << >>
        /\ FetchedSeries.power_forecast = << >>
        /\ FetchedSeries.energy_forecast = << >>
        /\ FetchedSeries.temperature = << >>
        /\ FetchedSeries.cloud_cover = << >>
        /\ FetchedSeries.wind_speed = << >>
        /\ FetchedSeries.current_power = 0
        /\ FetchedSeries.today_energy = 0
        /\ FetchedSeries.tomorrow_energy = 0
        /\ FetchedSeries.peak_power_today = 0
        /\ FetchedSeries.peak_power_tomorrow = 0
        /\ SuccessfulUpdates(<<read.result>>) = 1
        /\ ~RefreshFails(<<read.result>>)

\* a response with times whose irradiance values are all null
C20_Witness ==
    /\ IsProcessed
    /\ Len(FetchedHourly.time) = 2
    /\ FetchedHourly.shortwave_radiation = <<None, None>>
    /\ read.result.st = "ok"

\* a previous snapshot with an entry of one point for each array, and the snapshot a
\* cycle builds from the fetch just made for the first array and a good second fetch
PreviousSnapshot ==
    [i \in ArrayIdx |->
        [name |-> Arrays[i].name,
         series |-> ProcessForecastData(HourlyBlock(ProcessStart, 1), Arrays[i], 0)]]
SnapshotAfterFetch ==
    AllForecasts(<<read.result, Ok(GetEmptyForecastData(clock))>>, PreviousSnapshot)
FallsBack ==
    /\ read.result = Failed
    /\ Get(SnapshotAfterFetch, Arrays[1].name) = Get(PreviousSnapshot, Arrays[1].name)

IsResponse == read.kind = "fetch" /\ read.outcome.kind = "response"
LacksHourly ==
    /\ IsResponse
    /\ read.outcome.status = 200
    /\ read.outcome.json.parseable
    /\ read.outcome.json.is_object
    /\ ~read.outcome.json.has_hourly

\* C21 as stated: a response with a status other than 200, or with a body that does not
\* parse, is not an object or has no hourly block, is a failed fetch, and the cycle
\* keeps the array's previous entry.
C21_MalformedIsFailure ==
    (IsResponse /\ (read.outcome.status # 200 \/ ~read.outcome.json.parseable
                      \/ ~read.outcome.json.is_object \/ ~read.outcome.json.has_hourly))
        => FallsBack

\* C21: a response with a status other than 200, or with a body that does not parse or
\* is not an object, is a failed fetch and the cycle keeps the array's previous entry;
\* a body that is an object without an hourly block is a successful fetch of an empty
\* series, which replaces the previous entry.
C21_MalformedIsFailureButMissingHourly ==
    /\ (IsResponse /\ (read.outcome.status # 200 \/ ~read.outcome.json.parseable
                         \/ ~read.outcome.json.is_object))
           => FallsBack
    /\ LacksHourly =>
           /\ read.result.st = "ok"
           /\ read.result.series.timestamps = << >>
           /\ Get(SnapshotAfterFetch, Arrays[1].name) = read.result.series
           /\ Get(SnapshotAfterFetch, Arrays[1].name)
                  # Get(PreviousSnapshot, Arrays[1].name)

\* a status-200 body that parses but is not an object
C21_Witness ==
    /\ IsResponse
    /\ read.outcome.status = 200
    /\ read.outcome.json.parseable
    /\ ~read.outcome.json.is_object
    /\ FallsBack

\* C22: the timestamps of every series a fetch produces are strictly increasing and one
\* hour apart, also when some hours of the response have a null irradiance.
C22_UniformHourlySpacing ==
    (IsProcessed /\ read.result.st = "ok") =>
        \A j \in 1..(Len(FetchedSeries.timestamps) - 1) :
            FetchedSeries.timestamps[j + 1] = FetchedSeries.timestamps[j] + 1

\* the part of C22 that holds: the timestamps are strictly increasing
StrictlyIncreasing ==
    (IsProcessed /\ read.result.st = "ok") =>
        \A j \in 1..(Len(FetchedSeries.timestamps) - 1) :
            FetchedSeries.timestamps[j + 1] > FetchedSeries.timestamps[j]

NamesUnique(arrays) ==
    \A i, j \in 1..Len(arrays) : arrays[i].name = arrays[j].name => i = j

\* C23: after any steps of the initial flow and of the options flow (add, edit, delete),
\* no two arrays of the flow's list or of the stored entry have the same name.
C23_ArrayNamesUnique ==
    /\ flow # NoFlow => NamesUnique(flow.arrays)
    /\ config_entry # None => NamesUnique(Val(config_entry))

\* the options flow has refused to rename one of two arrays to the other's name
C23_Witness ==
    /\ flow.kind = "options"
    /\ flow.step_id = "edit_array"
    /\ flow.errors = Some("duplicate_name")
    /\ Len(flow.arrays) = 2

\* C30 as stated: a config entry is only ever created or saved with at least one array.
C30_StoredArraysNonEmpty ==
    config_entry # None => Val(config_entry) # << >>

C25_TodayIndependentOfSystemZone ==
    read.kind = "summary" =>
        \A utc_offset \in ZoneOffsets :
            LET series == Get(data, read.name)
                other == CalculateSummaryMetrics(series.timestamps, series.power_forecast,
                                                 LocalNow(clock, utc_offset))
            IN  /\ other.today_energy = read.value.today_energy
                /\ other.tomorrow_energy = read.value.tomorrow_energy
                /\ other.peak_power_today = read.value.peak_power_today
                /\ other.peak_power_tomorrow = read.value.peak_power_tomorrow

\* a step in which _async_update_data returns a snapshot and it is published
Publishes == CycleEnds /\ last_update_success'

ConfiguredNames == {Arrays[i].name : i \in ArrayIdx}

\* C26: every published snapshot has only names of configured arrays as keys and has
\* at least one entry fetched in the cycle that published it: no snapshot is empty or
\* made of retained entries only.
C26_PublishedSnapshotHasFreshEntry ==
    /\ [](data # None => (data # << >> /\ Keys(data) \subseteq ConfiguredNames))
    /\ [][Publishes =>
              /\ data' # None
              /\ Keys(data') \subseteq ConfiguredNames
              /\ \E i \in ArrayIdx :
                    /\ results[i].st = "ok"
                    /\ Has(data', Arrays[i].name)
                    /\ Get(data', Arrays[i].name) = results[i].series
                    /\ Get(data', Arrays[i].name).last_updated.t = clock]_vars
    /\ [][(CycleEnds /\ ~SomeOk(results)) => data' = data]_vars

\* the first cycle published a snapshot of one array only, the other's fetch having failed
C26_Witness ==
    /\ pc = "idle"
    /\ last_update_success
    /\ data # None
    /\ Len(data) = 1

\* C27: in every cycle in which some fetch succeeds, an array whose fetch failed keeps
\* the entry it had, unchanged, and an array whose fetch succeeded gets the series of
\* this cycle in place of the entry it had: no older entry outlives a successful fetch
\* of its own array.
C27_StaleKeptUntilOwnSuccess ==
    [][(CycleEnds /\ SomeOk(results) /\ data # None) =>
          \A i \in ArrayIdx :
              Has(data, Arrays[i].name) =>
                  /\ Has(data', Arrays[i].name)
                  /\ results[i] = Failed =>
                        Get(data', Arrays[i].name) = Get(data, Arrays[i].name)
                  /\ results[i].st = "ok" =>
                        /\ Get(data', Arrays[i].name) = results[i].series
                        /\ Get(data', Arrays[i].name).last_updated.t = clock
                        /\ Get(data, Arrays[i].name).last_updated.t < clock =>
                              Get(data', Arrays[i].name) # Get(data, Arrays[i].name)]_vars

\* an array whose entry is two hours older than its sibling's, kept while the sibling
\* was refreshed, has now fetched successfully in a cycle about to end
C27_Witness ==
    /\ pc = "fetching"
    /\ AllDone(results)
    /\ data # None
    /\ \E i, j \in ArrayIdx :
          /\ Has(data, Arrays[i].name)
          /\ Has(data, Arrays[j].name)
          /\ Get(data, Arrays[i].name).last_updated.t + 2
                 <= Get(data, Arrays[j].name).last_updated.t
          /\ results[i].st = "ok"

\* C28 as stated: for the same snapshot and the same now, the total energy of the
\* dashboard forecast for remaining_today equals the value of the remaining-today
\* energy sensor, an entry at the next midnight included.
C28_RemainingTodayForecastIsSensor ==
    (read.kind = "dashboard_forecast" /\ read.forecast_type = "remaining_today"
        /\ read.value # None) =>
        Some(Val(read.value).total_energy)
            = DashboardNativeValue(data, "energy_production_remaining_today", read.now)

\* C29 as stated: for the same snapshot read at any now, the value of the total
\* today-energy sensor (the sum of the stored today_energy summaries) equals the
\* total energy of the dashboard forecast for today computed at now from the combined
\* series, after a partial failure and on a later calendar day than the fetch as well.
C29_TodaySensorIsTodayForecast ==
    (read.kind = "total_sensor" /\ read.sensor_type = "today_energy"
        /\ read.native_value # None) =>
        LET forecast == GetEnergyDashboardForecast(data, "today", Instant(clock, 0, 0))
        IN  forecast # None =>
                Val(read.native_value) * UnitsPerCentiKW = Val(forecast).total_energy

====
